---- MODULE Spec2Model ----
(***************************************************************************)
(* Model of the weather service (services/weather/main.go): the rolling    *)
(* state lastRainTotal / lastOutsideTemp / lastOutsideHumd / avgWind, the  *)
(* per-event detector checkEvent, the daily digest weatherStats / tick and *)
(* the select loop of Service.Run.                                         *)
(*                                                                         *)
(* float64 values are modelled by exact numbers: sensor readings and query *)
(* results are integers, avgWind is an exact fraction num/den (the moving  *)
(* average divides by 40 on each update). An interface{} field of an event *)
(* is a record [type, val]: type "float" (a float64 of value val), "nil"   *)
(* (the key is absent from ev.Fields) or "string" (present, not a float64).*)
(* A run-time panic (failed single-value type assertion, index out of      *)
(* range) is not recovered anywhere in Run, so it ends the goroutine:      *)
(* state becomes "panicked" and no further input is taken.                 *)
(***************************************************************************)
EXTENDS Integers, Sequences, FiniteSets, TLC

\* ---------------------------------------------------------------- bounds
MaxRain == 2            \* rain totals range over 0..MaxRain
MaxWindEvents == 2      \* wind events processed in one behaviour

\* ------------------------------------------------------ program constants
Windy == 1              \* services.Config.Weather.Windy
HumdThreshold == 96     \* the literal 96 of the humidity check
AlertInterval == 7200   \* interval of every event alert
WindWindow == 40        \* the moving average's N

\* ------------------------------------------------------------ event fields
Float(v) == [type |-> "float", val |-> v]
Nil == [type |-> "nil", val |-> 0]
NonFloat == [type |-> "string", val |-> 0]
Absent == {Nil, NonFloat}

\* v, ok := f.(float64): the comma-ok assertion yields the zero value on failure
AssertOk(f) == f.type = "float"
AssertVal(f) == IF f.type = "float" THEN f.val ELSE 0

RainVals == 0 .. MaxRain
TempVals == {-2, -1, 0, 1}
HumdVals == {90, 96, 97}
SpeedVals == {0, 80}
DayTotals == {Float(5)}

Event(dev, all, day, temp, humd, speed) ==
    [device |-> dev, all_total |-> all, day_total |-> day,
     temp |-> temp, humidity |-> humd, speed |-> speed]

RainEvents ==
    {Event("rain", a, d, Nil, Nil, Nil) :
        a \in {Float(v) : v \in RainVals}, d \in DayTotals}
    \cup {Event("rain", a, Float(5), Nil, Nil, Nil) : a \in Absent}
TempEvents ==
    {Event("temp", Nil, Nil, Float(t), h, Nil) :
        t \in TempVals, h \in {Float(v) : v \in HumdVals} \cup {Nil}}
    \cup {Event("temp", Nil, Nil, Float(1), NonFloat, Nil)}
    \cup {Event("temp", Nil, Nil, t, Float(97), Nil) : t \in Absent}
WindEvents ==
    {Event("wind", Nil, Nil, Nil, Nil, s) :
        s \in {Float(v) : v \in SpeedVals} \cup Absent}
OtherEvents == {Event("other", Nil, Nil, Nil, Nil, Nil)}
Events == RainEvents \cup TempEvents \cup WindEvents \cup OtherEvents
NoEvent == Event("none", Nil, Nil, Nil, Nil, Nil)

\* ------------------------------------------------------------------ state
VARIABLES
    lastRainTotal,      \* float64, main.go:48
    lastOutsideTemp,    \* float64, main.go:48
    lastOutsideHumd,    \* float64, main.go:48
    avgWind,            \* float64, main.go:48, as the fraction num/den
    state,              \* "running" | "panicked": the goroutine of Run
    alerts,             \* the tweets sent while handling the last input
    last,               \* the last input taken by the select of Run
    pre,                \* the rolling state when that input was taken
    seen,               \* the devices whose case of checkEvent has completed
    first,              \* the last input was an event of a device not yet in seen
    replay,             \* the last input equals the input taken before it
    samples,            \* the wind speeds that went into avgWind so far
    descT,              \* getTempDesc: the argument t of a call
    descTable,          \* getTempDesc: the argument temps of that call
    descOut,            \* getTempDesc: the value the call returned
    descDone,           \* getTempDesc: the call has returned
    code,               \* rfid readEvents: the local string code, as character codes
    reader,             \* rfid readEvents: "reading" | "returned" (ReadOne failed)
    nemit,              \* rfid: the number of calls of emit so far
    lastTag,            \* rfid: the event passed to Publisher.Emit by the last emit
    keys,               \* rfid: key codes of the key-downs read since the last emit
    lastKeys,           \* rfid: keys as it was when the last emit was made
    rlast,              \* rfid: the last result of dev.ReadOne
    rpre,               \* rfid: code and nemit when that result was read
    events,             \* Run: the channel events, oldest first
    tickC,              \* Run: ticker.C holds a tick
    cur,                \* Run: the input received by the select and being handled
    delivered,          \* every event the subscriber has put on events, in order
    handled             \* every event checkEvent was called with, in order

vars == <<lastRainTotal, lastOutsideTemp, lastOutsideHumd, avgWind, state,
          alerts, last, pre, seen, first, replay, samples,
          descT, descTable, descOut, descDone,
          code, reader, nemit, lastTag, keys, lastKeys, rlast, rpre,
          events, tickC, cur, delivered, handled>>
\* the variables of the weather loop, of a call of getTempDesc
wvars == <<lastRainTotal, lastOutsideTemp, lastOutsideHumd, avgWind, state,
           alerts, last, pre, seen, first, replay, samples>>
dvars == <<descT, descTable, descOut, descDone>>
\* the variables of the rfid reader loop
rvars == <<code, reader, nemit, lastTag, keys, lastKeys, rlast, rpre>>
\* the two channels of Run's select and what is between them and the handlers
cvars == <<events, tickC, cur, delivered, handled>>

Rolling ==
    [lastRainTotal |-> lastRainTotal, lastOutsideTemp |-> lastOutsideTemp,
     lastOutsideHumd |-> lastOutsideHumd, avgWind |-> avgWind]

\* ----------------------------------------------------------------- alerts
\* tweet(message, subtopic, interval) -> services.SendAlert(message, "twitter", ...)
tweet(text, args, subtopic, interval) ==
    [text |-> text, args |-> args, target |-> "twitter",
     subtopic |-> subtopic, interval |-> interval]

Subtopics(as) == {as[i].subtopic : i \in 1 .. Len(as)}
CountOf(as, sub) == Cardinality({i \in 1 .. Len(as) : as[i].subtopic = sub})

\* ------------------------------------------------------- time-series query
\* What gr.Query returns for one call: an error, a result with no series or no
\* datapoint (err == nil), or a first datapoint of value val.
QueryVals == {-3, 0, 7}
QErr == [res |-> "err", val |-> 0]
QEmpty == [res |-> "empty", val |-> 0]
QOk(v) == [res |-> "ok", val |-> v]
NoQuery == [res |-> "none", val |-> 0]
QueryOutcomes == {QErr, QEmpty} \cup {QOk(v) : v \in QueryVals}
NoData(q) == q \in {QErr, QEmpty}

lowTemperatures ==
    << [temp |-> -5, noun |-> "a very cold"],
       [temp |-> -2, noun |-> "a rather cold"],
       [temp |-> 0, noun |-> "a freezing"],
       [temp |-> 2, noun |-> "a frosty"],
       [temp |-> 5, noun |-> "a cold"],
       [temp |-> 7, noun |-> "a moderate"],
       [temp |-> 10, noun |-> "a pleasant"],
       [temp |-> 15, noun |-> "a hot"],
       [temp |-> 25, noun |-> "a scorching"] >>

highTemperatures ==
    << [temp |-> 1, noun |-> "a very cold"],
       [temp |-> 4, noun |-> "a rather cold"],
       [temp |-> 6, noun |-> "a piercing"],
       [temp |-> 8, noun |-> "a chilly"],
       [temp |-> 11, noun |-> "a cool"],
       [temp |-> 15, noun |-> "a moderate"],
       [temp |-> 18, noun |-> "a reasonably warm"],
       [temp |-> 21, noun |-> "a hot"],
       [temp |-> 31, noun |-> "a scorching"],
       [temp |-> 36, noun |-> "a sweltering"] >>

\* variant: the comparison is t <= temp.temp
RECURSIVE getTempDesc_le(_, _)
getTempDesc_le(t, temps) ==
    IF temps = << >> THEN ""
    ELSE IF t <= Head(temps).temp THEN Head(temps).noun
    ELSE getTempDesc_le(t, Tail(temps))

\* for _, temp := range temps { if t < temp.temp { return temp.noun } }; return ""
RECURSIVE getTempDesc(_, _)
getTempDesc(t, temps) ==
    IF temps = << >> THEN ""
    ELSE IF t < Head(temps).temp THEN Head(temps).noun
    ELSE getTempDesc(t, Tail(temps))

\* data[0].Datapoints[0].Value indexes without a length check
getLast24Panics(q) == q.res = "empty"
getLast24(q) == IF q.res = "err" THEN 0 ELSE q.val

NoDataText == "Weather: I didn't get any outside temperature data yesterday!"
\* the degree sign of the source string is written " C" here
DigestFormat == "Weather: Outside it got up to %s %.1f C and went down to %s %.1f C in the last 24 hours."

\* weatherStats with the results of its two queries (max first, then min);
\* the message is the format string and the arguments of Sprintf.
IsNoData(lowest, highest) == lowest = 0 /\ highest = 0
weatherStats(qmax, qmin) ==
    LET highest == getLast24(qmax)
        highestDesc == getTempDesc(highest, highTemperatures)
        lowest == getLast24(qmin)
        lowestDesc == getTempDesc(lowest, lowTemperatures)
    IN  IF IsNoData(lowest, highest)
        THEN [text |-> NoDataText, args |-> << >>]
        ELSE [text |-> DigestFormat,
              args |-> <<highestDesc, highest, lowestDesc, lowest>>]
weatherStatsPanics(qmax, qmin) == getLast24Panics(qmax) \/ getLast24Panics(qmin)

\* ------------------------------------------------------------- checkEvent
\* variants of the three conditions, each with one plausible slip
RainAlert_ge(prev, rain) == prev # 0 /\ rain >= prev
RainAlert_noSeed(prev, rain) == rain > prev
BelowZero_le(prev, temp) == prev # 0 /\ prev >= 0 /\ temp <= 0
BelowZero_noSeed(prev, temp) == prev >= 0 /\ temp < 0
BelowZero_noEdge(prev, temp) == prev # 0 /\ temp < 0
LooksLikeRain_gt(ok, prev, humd) ==
    ok /\ prev # 0 /\ prev < HumdThreshold /\ humd > HumdThreshold

\* line 60
RainAlert(prev, rain) == prev # 0 /\ rain > prev
\* line 68
BelowZero(prev, temp) == prev # 0 /\ prev >= 0 /\ temp < 0
\* line 74
LooksLikeRain(ok, prev, humd) ==
    ok /\ prev # 0 /\ prev < HumdThreshold /\ humd >= HumdThreshold
\* line 77: lastOutsideHumd = humd, whatever ok is
NewHumd(prev, ok, humd) == humd
\* variants: the two weights swapped; the comparison reversed
WindUpdate_swapped(avg, speed) ==
    [num |-> avg.num + speed * (WindWindow - 1) * avg.den,
     den |-> avg.den * WindWindow]
IsWindy_lt(avg) == avg.num < Windy * avg.den

\* line 81: avgWind = avgWind*39/40 + speed*1/40
WindUpdate(avg, speed) ==
    [num |-> avg.num * (WindWindow - 1) + speed * avg.den,
     den |-> avg.den * WindWindow]
\* line 82
IsWindy(avg) == avg.num > Windy * avg.den
\* line 83: mph := avgWind * 2.237
Mph(avg) == [num |-> avg.num * 2237, den |-> avg.den * 1000]

EventInput(ev) == [input |-> "event", ev |-> ev, max |-> NoQuery, min |-> NoQuery]
TickInput(qmax, qmin) == [input |-> "tick", ev |-> NoEvent, max |-> qmax, min |-> qmin]

\* what every handler records about the input it was given
Taken(inp) ==
    /\ last' = inp
    /\ pre' = Rolling
    /\ replay' = (inp = last)
    /\ UNCHANGED <<dvars, rvars>>

\* a failed x.(float64) or an index out of range unwinds Run's goroutine
Panic(inp) ==
    /\ Taken(inp)
    /\ state' = "panicked"
    /\ alerts' = << >>
    /\ first' = (inp.input = "event" /\ inp.ev.device \notin seen)
    /\ UNCHANGED <<lastRainTotal, lastOutsideTemp, lastOutsideHumd, avgWind, seen,
                   samples>>

Done(ev) ==
    /\ Taken(EventInput(ev))
    /\ state' = "running"
    /\ first' = (ev.device \notin seen)
    /\ seen' = seen \cup {ev.device}

\* variant: the humidity tweet is sent under the subtopic of the temperature one
TempAlerts_sameTopic(prevT, temp, ok, prevH, humd) ==
    (IF BelowZero(prevT, temp)
     THEN << tweet("Brrr, it's gone below zero!", << >>, "temp", AlertInterval) >>
     ELSE << >>)
    \o (IF LooksLikeRain(ok, prevH, humd)
        THEN << tweet("Looks like rain...", << >>, "temp", AlertInterval) >>
        ELSE << >>)
\* lines 68-70 and 74-76: the tweets of the temperature case, in order
TempAlerts(prevT, temp, ok, prevH, humd) ==
    (IF BelowZero(prevT, temp)
     THEN << tweet("Brrr, it's gone below zero!", << >>, "temp", AlertInterval) >>
     ELSE << >>)
    \o (IF LooksLikeRain(ok, prevH, humd)
        THEN << tweet("Looks like rain...", << >>, "humidity", AlertInterval) >>
        ELSE << >>)

\* case services.Config.Weather.Outside.Rain
CheckRain(ev) ==
    /\ ev.device = "rain"
    /\ IF ~AssertOk(ev.all_total)
       THEN Panic(EventInput(ev))
       ELSE LET rain == ev.all_total.val IN
            /\ alerts' = IF RainAlert(lastRainTotal, rain)
                         THEN << tweet("It's raining! (%.2fmm today)",
                                       <<ev.day_total>>, "rain", AlertInterval) >>
                         ELSE << >>
            /\ lastRainTotal' = rain
            /\ Done(ev)
            /\ UNCHANGED <<lastOutsideTemp, lastOutsideHumd, avgWind, samples>>

\* case services.Config.Weather.Outside.Temp
CheckTemp(ev) ==
    /\ ev.device = "temp"
    /\ IF ~AssertOk(ev.temp)
       THEN Panic(EventInput(ev))
       ELSE LET temp == ev.temp.val
                ok == AssertOk(ev.humidity)
                humd == AssertVal(ev.humidity)
            IN
            /\ alerts' = TempAlerts(lastOutsideTemp, temp, ok, lastOutsideHumd, humd)
            /\ lastOutsideTemp' = temp
            /\ lastOutsideHumd' = NewHumd(lastOutsideHumd, ok, humd)
            /\ Done(ev)
            /\ UNCHANGED <<lastRainTotal, avgWind, samples>>

\* case services.Config.Weather.Outside.Wind
CheckWind(ev) ==
    /\ ev.device = "wind"
    /\ IF ~AssertOk(ev.speed)
       THEN Panic(EventInput(ev))
       ELSE LET avg == WindUpdate(avgWind, ev.speed.val) IN
            /\ avgWind.den < WindWindow ^ MaxWindEvents
            /\ avgWind' = avg
            /\ samples' = samples \cup {ev.speed.val}
            /\ alerts' = IF IsWindy(avg)
                         THEN << tweet("It's windy outside - %.1fmph!",
                                       <<Mph(avg)>>, "wind", AlertInterval) >>
                         ELSE << >>
            /\ Done(ev)
            /\ UNCHANGED <<lastRainTotal, lastOutsideTemp, lastOutsideHumd>>

\* a device that is none of the three configured ones: no case of the switch
CheckOther(ev) ==
    /\ ev.device \notin {"rain", "temp", "wind"}
    /\ alerts' = << >>
    /\ Taken(EventInput(ev))
    /\ state' = "running"
    /\ first' = FALSE
    /\ UNCHANGED <<lastRainTotal, lastOutsideTemp, lastOutsideHumd, avgWind, seen,
                   samples>>

\* variant: the digest is sent with the interval of the event alerts
DailyTweet_interval(msg) == tweet(msg.text, msg.args, "daily", AlertInterval)
\* line 130: tweet(msg, "daily", 0)
DailyTweet(msg) == tweet(msg.text, msg.args, "daily", 0)

\* variant: the daily tick also starts a new day by clearing the rain total
tick_reset(qmax, qmin) ==
    IF weatherStatsPanics(qmax, qmin)
    THEN Panic(TickInput(qmax, qmin))
    ELSE /\ alerts' = << DailyTweet(weatherStats(qmax, qmin)) >>
         /\ Taken(TickInput(qmax, qmin))
         /\ state' = "running"
         /\ first' = FALSE
         /\ lastRainTotal' = 0
         /\ UNCHANGED <<lastOutsideTemp, lastOutsideHumd, avgWind, seen, samples>>

\* tick(): msg := weatherStats(); tweet(msg, "daily", 0)
tick(qmax, qmin) ==
    IF weatherStatsPanics(qmax, qmin)
    THEN Panic(TickInput(qmax, qmin))
    ELSE LET msg == weatherStats(qmax, qmin) IN
         /\ alerts' = << DailyTweet(msg) >>
         /\ Taken(TickInput(qmax, qmin))
         /\ state' = "running"
         /\ first' = FALSE
         /\ UNCHANGED <<lastRainTotal, lastOutsideTemp, lastOutsideHumd, avgWind, seen,
                        samples>>

\* --------------------------------------------------------------- Service.Run
ZeroAvg == [num |-> 0, den |-> 1]

RunInit ==
    /\ lastRainTotal = 0
    /\ lastOutsideTemp = 0
    /\ lastOutsideHumd = 0
    /\ avgWind = ZeroAvg
    /\ state = "running"
    /\ alerts = << >>
    /\ last = [input |-> "none", ev |-> NoEvent, max |-> NoQuery, min |-> NoQuery]
    /\ pre = [lastRainTotal |-> 0, lastOutsideTemp |-> 0,
              lastOutsideHumd |-> 0, avgWind |-> ZeroAvg]
    /\ seen = {}
    /\ first = FALSE
    /\ replay = FALSE
    /\ samples = {}

\* no call of getTempDesc outside weatherStats
DescIdle ==
    /\ descT = 0
    /\ descTable = << >>
    /\ descOut = ""
    /\ descDone = FALSE

\* services/rfid: readEvents starts with code := ""
NoTag == [topic |-> "none", origin |-> "", command |-> "", source |-> << >>]
NoRead == [err |-> FALSE, Type |-> 0, Value |-> 0, Code |-> 0]
RfidInit ==
    /\ code = << >>
    /\ reader = "reading"
    /\ nemit = 0
    /\ lastTag = NoTag
    /\ keys = << >>
    /\ lastKeys = << >>
    /\ rlast = NoRead
    /\ rpre = [code |-> << >>, nemit |-> 0]

\* nothing delivered, no tick due, the loop waiting in its select
NoInput == [input |-> "none", ev |-> NoEvent]
ChanInit ==
    /\ events = << >>
    /\ tickC = FALSE
    /\ cur = NoInput
    /\ delivered = << >>
    /\ handled = << >>

Init == RunInit /\ DescIdle /\ RfidInit /\ ChanInit

\* case ev := <-events: checkEvent(ev)
\* (the event is whatever the channel hands over; the channel itself is in SpecChan)
RecvRain ==
    /\ state = "running"
    /\ \E ev \in RainEvents : CheckRain(ev)
    /\ UNCHANGED cvars
RecvTemp ==
    /\ state = "running"
    /\ \E ev \in TempEvents : CheckTemp(ev)
    /\ UNCHANGED cvars
RecvWind ==
    /\ state = "running"
    /\ \E ev \in WindEvents : CheckWind(ev)
    /\ UNCHANGED cvars
RecvOther ==
    /\ state = "running"
    /\ \E ev \in OtherEvents : CheckOther(ev)
    /\ UNCHANGED cvars
\* case <-ticker.C: tick()
RecvTick ==
    /\ state = "running"
    /\ \E qmax, qmin \in QueryOutcomes : tick(qmax, qmin)
    /\ UNCHANGED cvars

Next == RecvRain \/ RecvTemp \/ RecvWind \/ RecvOther \/ RecvTick

Spec == Init /\ [][Next]_vars

TypeOK ==
    /\ lastRainTotal \in RainVals
    /\ lastOutsideTemp \in TempVals
    /\ lastOutsideHumd \in HumdVals \cup {0}
    /\ state \in {"running", "panicked"}
    /\ seen \subseteq {"rain", "temp", "wind"}

\* ======================================================== properties
IsEvent(dev) == last.input = "event" /\ last.ev.device = dev
IsTick == last.input = "tick"
Handled == state = "running"
\* the event lacks the field its case asserts with x.(float64), or has it non-numeric
Malformed(ev) ==
    \/ ev.device = "rain" /\ ~AssertOk(ev.all_total)
    \/ ev.device = "temp" /\ ~AssertOk(ev.temp)
    \/ ev.device = "wind" /\ ~AssertOk(ev.speed)
Sent(sub) == sub \in Subtopics(alerts)

\* C1 (as claimed): an event whose required field is missing or not numeric emits
\* no alert, leaves the stored values as they were, and the loop keeps running.
C1_BadEventKeepsRunning ==
    (last.input = "event" /\ Malformed(last.ev)) =>
        /\ alerts = << >>
        /\ Rolling = pre
        /\ state = "running"

\* C2: a rain alert is sent on a rain event iff the stored total before it was
\* non-zero and the event's all_total is strictly greater; afterwards the stored
\* total is the event's all_total, alert or not.
C2_RainAlertIff ==
    (IsEvent("rain") /\ Handled) =>
        /\ Sent("rain") <=> (pre.lastRainTotal # 0
                             /\ last.ev.all_total.val > pre.lastRainTotal)
        /\ Len(alerts) <= 1
        /\ lastRainTotal = last.ev.all_total.val
C2_Witness ==
    /\ IsEvent("rain") /\ Handled /\ Sent("rain")
    /\ pre.lastRainTotal = 1 /\ lastRainTotal = 2

\* C3: the below-zero alert is sent on a temperature event exactly when the stored
\* temperature before it was non-zero and >= 0 and the new one is < 0; none is
\* sent after a sub-zero reading nor on a reading >= 0; the stored temperature is
\* the new reading afterwards.
C3_BelowZeroEdge ==
    (IsEvent("temp") /\ Handled) =>
        /\ Sent("temp") <=> (/\ pre.lastOutsideTemp # 0
                             /\ pre.lastOutsideTemp >= 0
                             /\ last.ev.temp.val < 0)
        /\ pre.lastOutsideTemp < 0 => ~Sent("temp")
        /\ last.ev.temp.val >= 0 => ~Sent("temp")
        /\ CountOf(alerts, "temp") <= 1
        /\ lastOutsideTemp = last.ev.temp.val
C3_Witness ==
    /\ IsEvent("temp") /\ Handled /\ Sent("temp")
    /\ pre.lastOutsideTemp = 1 /\ lastOutsideTemp = -1

\* C4: on a temperature event carrying a float humidity, the looks-like-rain alert
\* is sent exactly when the stored humidity before it was non-zero and < 96 and
\* the new humidity is >= 96; none is sent when the stored one was already >= 96.
C4_HumidityEdge ==
    (IsEvent("temp") /\ Handled /\ AssertOk(last.ev.humidity)) =>
        /\ Sent("humidity") <=> (/\ pre.lastOutsideHumd # 0
                                 /\ pre.lastOutsideHumd < HumdThreshold
                                 /\ last.ev.humidity.val >= HumdThreshold)
        /\ pre.lastOutsideHumd >= HumdThreshold => ~Sent("humidity")
        /\ CountOf(alerts, "humidity") <= 1
C4_Witness ==
    /\ IsEvent("temp") /\ Handled /\ Sent("humidity")
    /\ pre.lastOutsideHumd = 90 /\ last.ev.humidity.val = 97

\* C5 (as claimed): a temperature event without humidity sends no humidity alert
\* and leaves the stored humidity as it was.
C5_AbsentHumidityKeepsState ==
    (IsEvent("temp") /\ Handled /\ ~AssertOk(last.ev.humidity)) =>
        /\ ~Sent("humidity")
        /\ lastOutsideHumd = pre.lastOutsideHumd

\* C6 (as claimed): the first event of each device sends no alert, whatever its value.
C6_FirstEventNeverAlerts == first => alerts = << >>

\* C6 (amended): the first rain event and the first temperature event send no
\* alert whatever their values; the first wind event sends the wind alert exactly
\* when its speed exceeds 40 times the windy threshold (speed/40 > Windy).
C6_FirstEventSeedsOnly ==
    first =>
        IF IsEvent("wind") /\ Handled
        THEN /\ pre.avgWind = ZeroAvg
             /\ Sent("wind") <=> last.ev.speed.val > WindWindow * Windy
        ELSE alerts = << >>
C6_Witness ==
    /\ first /\ IsEvent("rain") /\ Handled
    /\ last.ev.all_total.val = 2 /\ lastRainTotal = 2 /\ alerts = << >>

\* C7: when the stored value of a signal is exactly zero, the next event of that
\* signal sends no alert for it, also when the zero is a genuine reading.
C7_ZeroSuppresses ==
    (last.input = "event" /\ Handled) =>
        /\ (IsEvent("rain") /\ pre.lastRainTotal = 0) => ~Sent("rain")
        /\ (IsEvent("temp") /\ pre.lastOutsideTemp = 0) => ~Sent("temp")
        /\ (IsEvent("temp") /\ pre.lastOutsideHumd = 0) => ~Sent("humidity")
C7_Witness ==
    /\ IsEvent("temp") /\ Handled /\ ~first
    /\ pre.lastOutsideTemp = 0 /\ last.ev.temp.val = -1 /\ ~Sent("temp")

\* C8 (as claimed): a tick on which the max or the min query gave no data never
\* sends the formatted high/low sentence; every digest it sends is the fallback.
C8_NoDataGivesFallback ==
    (IsTick /\ (NoData(last.max) \/ NoData(last.min))) =>
        \A i \in 1 .. Len(alerts) : alerts[i].text = NoDataText

\* C9 (as claimed): a tick on which both queries fail or return no data completes,
\* sends the fallback sentence as the digest, and the loop keeps running.
C9_TickSurvivesNoData ==
    (IsTick /\ NoData(last.max) /\ NoData(last.min)) =>
        /\ state = "running"
        /\ Len(alerts) = 1
        /\ alerts[1].text = NoDataText
        /\ alerts[1].subtopic = "daily"

\* C10: when the same rain or temperature event is handled twice in immediate
\* succession, the second handling sends no rain, below-zero or looks-like-rain
\* alert and leaves the stored last values as the first handling left them.
C10_ReplayNoDoubleTrigger ==
    (replay /\ Handled /\ (IsEvent("rain") \/ IsEvent("temp"))) =>
        /\ ~Sent("rain") /\ ~Sent("temp") /\ ~Sent("humidity")
        /\ lastRainTotal = pre.lastRainTotal
        /\ lastOutsideTemp = pre.lastOutsideTemp
        /\ lastOutsideHumd = pre.lastOutsideHumd
C10_Witness ==
    /\ replay /\ Handled /\ IsEvent("temp")
    /\ last.ev.temp.val = -1 /\ last.ev.humidity = Float(97)
    /\ lastOutsideTemp = -1 /\ lastOutsideHumd = 97

\* ------------------------------------------------------------ wind average
Abs(x) == IF x < 0 THEN -x ELSE x
\* |avg - s| as a numerator over avg.den; with avg'.den = 40 * avg.den the
\* distances compare as Dist(avg', s) to 40 * Dist(avg, s)
Dist(avg, s) == Abs(avg.num - s * avg.den)
WithinBounds(avg, S) ==
    /\ \E lo \in S : lo * avg.den <= avg.num
    /\ \E hi \in S : avg.num <= hi * avg.den

\* C11 (as claimed): on every wind event of sample s the distance |avgWind - s|
\* does not grow and is 39/40 of what it was, and avgWind lies within the bounds
\* of the samples observed so far.
C11_WithinSampleBounds ==
    (IsEvent("wind") /\ Handled) =>
        /\ avgWind.den = WindWindow * pre.avgWind.den
        /\ Dist(avgWind, last.ev.speed.val)
               <= WindWindow * Dist(pre.avgWind, last.ev.speed.val)
        /\ Dist(avgWind, last.ev.speed.val)
               = (WindWindow - 1) * Dist(pre.avgWind, last.ev.speed.val)
        /\ WithinBounds(avgWind, samples)

\* C11 (amended): on every wind event of sample s, so also for a constant sample
\* repeated, |avgWind - s| does not grow and is exactly 39/40 of what it was; in
\* every state avgWind lies within the bounds of the samples observed so far
\* taken together with the initial value 0.
C11_WindConverges ==
    /\ (IsEvent("wind") /\ Handled) =>
        /\ avgWind.den = WindWindow * pre.avgWind.den
        /\ Dist(avgWind, last.ev.speed.val)
               <= WindWindow * Dist(pre.avgWind, last.ev.speed.val)
        /\ Dist(avgWind, last.ev.speed.val)
               = (WindWindow - 1) * Dist(pre.avgWind, last.ev.speed.val)
        /\ last.ev.speed.val \in samples
    /\ WithinBounds(avgWind, samples \cup {0})
C11_Witness ==
    /\ replay /\ IsEvent("wind") /\ Handled
    /\ last.ev.speed.val = 80 /\ samples = {80}
    /\ avgWind.num * pre.avgWind.den > pre.avgWind.num * avgWind.den

\* C13 (as claimed): handling one event sends at most one alert.
C13_AtMostOneAlert == last.input = "event" => Len(alerts) <= 1

\* C13 (amended): a rain event sends at most one alert (rain), a wind event at
\* most one (wind), an event of another device none; a temperature event sends at
\* most one below-zero and at most one looks-like-rain alert, so up to two.
C13_AtMostOnePerCheck ==
    last.input = "event" =>
        /\ \A sub \in Subtopics(alerts) : CountOf(alerts, sub) = 1
        /\ IsEvent("rain") => Subtopics(alerts) \subseteq {"rain"}
        /\ IsEvent("temp") => Subtopics(alerts) \subseteq {"temp", "humidity"}
        /\ IsEvent("wind") => Subtopics(alerts) \subseteq {"wind"}
        /\ IsEvent("other") => alerts = << >>
C13_Witness ==
    /\ IsEvent("temp") /\ Handled /\ Len(alerts) = 2
    /\ alerts[1].subtopic = "temp" /\ alerts[2].subtopic = "humidity"

\* C15: on a wind event the stored average is first replaced by
\* avgWind*39/40 + speed/40 and the wind alert is sent iff that new average is
\* strictly above the windy threshold, also when the previous one already was.
C15_WindAlertIff ==
    (IsEvent("wind") /\ Handled) =>
        /\ avgWind.num = (WindWindow - 1) * pre.avgWind.num
                         + last.ev.speed.val * pre.avgWind.den
        /\ avgWind.den = WindWindow * pre.avgWind.den
        /\ Sent("wind") <=> avgWind.num > Windy * avgWind.den
        /\ Len(alerts) <= 1
C15_Witness ==
    /\ IsEvent("wind") /\ Handled /\ Sent("wind")
    /\ pre.avgWind.num > Windy * pre.avgWind.den
    /\ last.ev.speed.val = 0

\* C16: a tick handled to completion sends exactly one alert, with subtopic
\* "daily" and interval 0; an event never sends a "daily" alert, and every alert
\* of an event has subtopic rain, temp, humidity or wind and interval 7200.
C16_DigestOnlyOnTick ==
    /\ (IsTick /\ Handled) =>
        /\ Len(alerts) = 1
        /\ alerts[1].subtopic = "daily"
        /\ alerts[1].interval = 0
    /\ last.input = "event" =>
        \A i \in 1 .. Len(alerts) :
            /\ alerts[i].subtopic \in {"rain", "temp", "humidity", "wind"}
            /\ alerts[i].interval = AlertInterval
C16_Witness ==
    /\ IsTick /\ Handled /\ Len(alerts) = 1
    /\ alerts[1].subtopic = "daily" /\ alerts[1].text = DigestFormat

\* C17 (as claimed): when both queries return a datapoint, whatever its value,
\* the digest is the formatted sentence, the max classified with the high table
\* and the min with the low table.
C17_DataGivesFormatted ==
    (IsTick /\ last.max.res = "ok" /\ last.min.res = "ok") =>
        /\ Len(alerts) = 1
        /\ alerts[1].text = DigestFormat
        /\ alerts[1].args = << getTempDesc(last.max.val, highTemperatures), last.max.val,
                               getTempDesc(last.min.val, lowTemperatures), last.min.val >>

\* C19: a rain event leaves the temperature, humidity and wind values as they
\* were, a temperature event the rain and wind values, a wind event the rain,
\* temperature and humidity values; a tick and an event of an unrecognised device
\* leave all four, and the latter sends no alert.
C19_Frame ==
    /\ IsEvent("rain") =>
        /\ lastOutsideTemp = pre.lastOutsideTemp
        /\ lastOutsideHumd = pre.lastOutsideHumd
        /\ avgWind = pre.avgWind
    /\ IsEvent("temp") =>
        /\ lastRainTotal = pre.lastRainTotal
        /\ avgWind = pre.avgWind
    /\ IsEvent("wind") =>
        /\ lastRainTotal = pre.lastRainTotal
        /\ lastOutsideTemp = pre.lastOutsideTemp
        /\ lastOutsideHumd = pre.lastOutsideHumd
    /\ IsTick => Rolling = pre
    /\ IsEvent("other") => (Rolling = pre /\ alerts = << >>)
C19_Witness ==
    /\ IsTick /\ Handled
    /\ pre.lastRainTotal = 2 /\ pre.lastOutsideTemp = -1
    /\ pre.lastOutsideHumd = 97 /\ pre.avgWind.num > 0
    /\ Rolling = pre

\* ------------------------------------------------- getTempDesc on its own
\* A call getTempDesc(t, temps) with the table drawn from the tables sorted
\* ascending by breakpoint (equal neighbours allowed) of at most MaxTable entries
\* over Breakpoints, and from the two tables of the program.
MaxTable == 3
Breakpoints == {0, 2, 5}
DescVals == -1 .. 6
Noun(i) == ToString(i)
DescTables ==
    UNION { { [i \in 1 .. n |-> [temp |-> bp[i], noun |-> Noun(i)]] :
                bp \in { f \in [1 .. n -> Breakpoints] :
                            \A i \in 1 .. n - 1 : f[i] <= f[i + 1] } } :
            n \in 0 .. MaxTable }
    \cup {lowTemperatures, highTemperatures}

DescInit ==
    /\ RunInit
    /\ RfidInit
    /\ ChanInit
    /\ descT \in DescVals
    /\ descTable \in DescTables
    /\ descOut = ""
    /\ descDone = FALSE

DescCall ==
    /\ ~descDone
    /\ descOut' = getTempDesc(descT, descTable)
    /\ descDone' = TRUE
    /\ UNCHANGED <<descT, descTable, wvars, rvars, cvars>>

\* the caller passes the next value with the same table
DescAgain ==
    /\ descDone
    /\ \E t \in DescVals : descT' = t
    /\ descDone' = FALSE
    /\ descOut' = ""
    /\ UNCHANGED <<descTable, wvars, rvars, cvars>>

DescNext == DescCall \/ DescAgain
SpecDesc == DescInit /\ [][DescNext]_vars

\* the entries whose breakpoint is strictly greater than the value
Greater(t, temps) == {i \in 1 .. Len(temps) : temps[i].temp > t}
Least(S) == CHOOSE i \in S : \A j \in S : i <= j

\* C12: on a table sorted ascending getTempDesc returns, for every value, the
\* label of the first entry whose breakpoint is strictly greater than the value,
\* and the empty label when no breakpoint is; a value equal to a breakpoint does
\* not take that entry's label.
C12_FirstStrictlyGreater ==
    descDone =>
        /\ Greater(descT, descTable) = {} => descOut = ""
        /\ Greater(descT, descTable) # {} =>
              /\ descOut = descTable[Least(Greater(descT, descTable))].noun
              /\ \A j \in 1 .. Least(Greater(descT, descTable)) - 1 :
                    descTable[j].temp <= descT
C12_Witness ==
    /\ descDone /\ descT = 2 /\ Len(descTable) = 3
    /\ descTable[2].temp = 2 /\ descTable[3].temp = 5
    /\ descOut = descTable[3].noun

\* ----------------------------------------------- services/rfid: readEvents
MaxCode == 2            \* characters buffered between two emits
MaxTags == 2            \* emits in one behaviour

NewLine == 10           \* '\n'
DigitOne == 49          \* '1'
DigitZero == 48         \* '0'

\* func convertKeyCode(code uint16) uint16
convertKeyCode(c) ==
    IF c >= 2 /\ c <= 10 THEN (c - 2 + DigitOne) % 65536
    ELSE IF c = 11 THEN DigitZero
    ELSE IF c = 96 \/ c = 28 THEN NewLine
    ELSE 0

\* what dev.ReadOne returns: an input event (Type, Value, Code) or an error
KeyCodes == {2, 11, 28, 96, 42}
ReadOk(t, v, c) == [err |-> FALSE, Type |-> t, Value |-> v, Code |-> c]
ReadErr == [err |-> TRUE, Type |-> 0, Value |-> 0, Code |-> 0]
Reads == {ReadOk(t, v, c) : t \in {1, 4}, v \in {0, 1}, c \in KeyCodes}

\* if ev.Type == 1 && ev.Value == 1
IsKeyDown(ev) == ev.Type = 1 /\ ev.Value = 1

\* variant: the buffer is not cleared after emit
NextCode_keep(buf, ch) == IF ch = NewLine THEN buf ELSE Append(buf, ch)
\* switch ch { case '\n': emit(code); code = ""  default: code += string(ch) }
NextCode(buf, ch) == IF ch = NewLine THEN << >> ELSE Append(buf, ch)

\* func emit(code string)
emit(src) == [topic |-> "rfid", origin |-> "rfid", command |-> "tag", source |-> src]

RfidRecord(ev) ==
    /\ rlast' = ev
    /\ rpre' = [code |-> code, nemit |-> nemit]
    /\ UNCHANGED <<wvars, dvars, cvars>>

\* ev, err := dev.ReadOne(); if err != nil { return err }
ReadFails ==
    /\ reader = "reading"
    /\ reader' = "returned"
    /\ RfidRecord(ReadErr)
    /\ UNCHANGED <<code, nemit, lastTag, keys, lastKeys>>

\* an event that is not a key-down: the if is skipped
ReadIgnored ==
    /\ reader = "reading"
    /\ \E ev \in Reads :
        /\ ~IsKeyDown(ev)
        /\ RfidRecord(ev)
    /\ UNCHANGED <<code, reader, nemit, lastTag, keys, lastKeys>>

\* a key-down whose character is '\n'
ReadEnter ==
    /\ reader = "reading"
    /\ nemit < MaxTags
    /\ \E ev \in Reads :
        /\ IsKeyDown(ev)
        /\ convertKeyCode(ev.Code) = NewLine
        /\ RfidRecord(ev)
        /\ lastTag' = emit(code)
        /\ nemit' = nemit + 1
        /\ code' = NextCode(code, convertKeyCode(ev.Code))
        /\ lastKeys' = keys
        /\ keys' = << >>
    /\ UNCHANGED reader

\* a key-down of any other character
ReadChar ==
    /\ reader = "reading"
    /\ Len(code) < MaxCode
    /\ \E ev \in Reads :
        /\ IsKeyDown(ev)
        /\ convertKeyCode(ev.Code) # NewLine
        /\ RfidRecord(ev)
        /\ code' = NextCode(code, convertKeyCode(ev.Code))
        /\ keys' = Append(keys, ev.Code)
    /\ UNCHANGED <<reader, nemit, lastTag, lastKeys>>

RfidNext == ReadFails \/ ReadIgnored \/ ReadEnter \/ ReadChar
SpecRfid == Init /\ [][RfidNext]_vars

Converted(ks) == [i \in 1 .. Len(ks) |-> convertKeyCode(ks[i])]
IsEnter(ev) == ~ev.err /\ IsKeyDown(ev) /\ ev.Code \in {28, 96}

\* C20: the buffer is the converted characters, in arrival order, of the
\* key-downs read since the last emit; only key-downs change it; each Enter
\* key-down (code 28 or 96) makes exactly one emit, whose source is that
\* concatenation, and empties the buffer; a read error ends the loop with no emit.
C20_TagIsKeysSinceLastEmit ==
    /\ code = Converted(keys)
    /\ nemit > 0 =>
        /\ lastTag.source = Converted(lastKeys)
        /\ lastTag.command = "tag"
        /\ \A i \in 1 .. Len(lastKeys) : lastKeys[i] \notin {28, 96}
    /\ nemit = 0 => lastTag = NoTag
    /\ IsEnter(rlast) =>
        /\ nemit = rpre.nemit + 1
        /\ lastTag.source = rpre.code
        /\ code = << >>
    /\ (~rlast.err /\ IsKeyDown(rlast) /\ ~IsEnter(rlast)) =>
        /\ nemit = rpre.nemit
        /\ code = Append(rpre.code, convertKeyCode(rlast.Code))
    /\ (~rlast.err /\ ~IsKeyDown(rlast)) =>
        /\ nemit = rpre.nemit
        /\ code = rpre.code
    /\ rlast.err =>
        /\ reader = "returned"
        /\ nemit = rpre.nemit
        /\ code = rpre.code
C20_Witness ==
    /\ nemit = 2 /\ IsEnter(rlast)
    /\ lastKeys = <<11, 2>> /\ lastTag.source = <<DigitZero, DigitOne>>
    /\ code = << >>

\* ------------------------------------------- Service.Run with its channels
\* The select of Run with the two channels made explicit: the subscriber puts
\* events on the channel, the scheduler puts a tick on ticker.C, the loop receives
\* one of them (Take...) and runs its handler (Handle...) before the next select.
MaxDeliveries == 3      \* events delivered in one behaviour
MaxChan == 2            \* events waiting on the channel

ChanEvents ==
    { Event("rain", Float(1), Float(5), Nil, Nil, Nil),
      Event("rain", Float(2), Float(5), Nil, Nil, Nil),
      Event("temp", Nil, Nil, Float(-1), Float(97), Nil),
      Event("wind", Nil, Nil, Nil, Nil, Float(80)),
      Event("wind", Nil, Nil, Nil, Nil, Nil),
      Event("other", Nil, Nil, Nil, Nil, Nil) }
ChanQueries == {QErr, QEmpty, QOk(7)}

WindCount(evs) ==
    Cardinality({i \in 1 .. Len(evs) : evs[i].device = "wind"})

\* the subscriber sends an event on the channel
Deliver ==
    /\ state = "running"
    /\ Len(delivered) < MaxDeliveries
    /\ Len(events) < MaxChan
    /\ \E ev \in ChanEvents :
        /\ ev.device = "wind" => WindCount(delivered) < MaxWindEvents
        /\ events' = Append(events, ev)
        /\ delivered' = Append(delivered, ev)
    /\ UNCHANGED <<tickC, cur, handled, wvars, dvars, rvars>>

\* the scheduler fires
TickFires ==
    /\ state = "running"
    /\ ~tickC
    /\ tickC' = TRUE
    /\ UNCHANGED <<events, cur, delivered, handled, wvars, dvars, rvars>>

\* variant: the newest waiting event is received first
ChanHead_last(q) == q[Len(q)]
\* ev := <-events receives the oldest event sent
ChanHead(q) == Head(q)

\* case ev := <-events
TakeEvent ==
    /\ state = "running"
    /\ cur = NoInput
    /\ events # << >>
    /\ cur' = [input |-> "event", ev |-> ChanHead(events)]
    /\ events' = Tail(events)
    /\ UNCHANGED <<tickC, delivered, handled, wvars, dvars, rvars>>

\* case <-ticker.C
TakeTick ==
    /\ state = "running"
    /\ cur = NoInput
    /\ tickC
    /\ cur' = [input |-> "tick", ev |-> NoEvent]
    /\ tickC' = FALSE
    /\ UNCHANGED <<events, delivered, handled, wvars, dvars, rvars>>

\* checkEvent(ev), then back to the select
HandleEvent ==
    /\ state = "running"
    /\ cur.input = "event"
    /\ \/ CheckRain(cur.ev)
       \/ CheckTemp(cur.ev)
       \/ CheckWind(cur.ev)
       \/ CheckOther(cur.ev)
    /\ cur' = NoInput
    /\ handled' = Append(handled, cur.ev)
    /\ UNCHANGED <<events, tickC, delivered>>

\* tick(), then back to the select
HandleTick ==
    /\ state = "running"
    /\ cur.input = "tick"
    /\ \E qmax, qmin \in ChanQueries : tick(qmax, qmin)
    /\ cur' = NoInput
    /\ UNCHANGED <<events, tickC, delivered, handled>>

ChanNext ==
    Deliver \/ TickFires \/ TakeEvent \/ TakeTick \/ HandleEvent \/ HandleTick
SpecChan == Init /\ [][ChanNext]_vars

BeingHandled == IF cur.input = "event" THEN <<cur.ev>> ELSE << >>

\* C14: every event delivered is handled, being handled or still waiting, in the
\* order of delivery; an input is received only when no handler is running, one
\* at a time, and the rolling state changes only in the step that completes the
\* handler of the input received.
C14_OneInputAtATime ==
    /\ [](delivered = handled \o BeingHandled \o events)
    /\ [][ /\ (cur' # cur /\ cur' # NoInput) =>
                /\ cur = NoInput
                /\ Len(events) + (IF tickC THEN 1 ELSE 0)
                     = Len(events') + (IF tickC' THEN 1 ELSE 0) + 1
           /\ Rolling' # Rolling => (cur # NoInput /\ cur' = NoInput)
           /\ handled' # handled => (handled' = Append(handled, cur.ev) /\ cur' = NoInput)
         ]_vars
C14_Witness ==
    /\ Len(handled) = 2 /\ handled[1] # handled[2]
    /\ handled[1].device = "rain" /\ handled[2].device = "temp"
    /\ cur.input = "event" /\ state = "running"
    /\ lastRainTotal = 1 /\ lastOutsideTemp = -1

\* C18 (as claimed): the loop has no terminal state, so while an event waits on
\* the channel, a tick is due or an input has been received, the loop is running
\* and will come to handle it.
C18_PendingInputIsHandled ==
    (events # << >> \/ tickC \/ cur # NoInput) => state = "running"

====
